---- MODULE Spec2Model ----
(***************************************************************************)
(* A model of runcity.py: the two html.parser extractors (LinkParser,      *)
(* RouteParser), the file cache decorator (cache_wrapper) and the          *)
(* list/update pipeline built on them.                                     *)
(*                                                                         *)
(* Representation.                                                         *)
(*   text of an element  : a sequence of one-character strings             *)
(*   link / URL          : a record [abs, segs, dir] - absolute or         *)
(*                         relative path, its segments, trailing slash     *)
(*   markup              : the sequence of tokens html.parser reports,     *)
(*                         [type, tag, attrs, data]; attrs is the list of  *)
(*                         (name, value) pairs handed to handle_starttag   *)
(*   Python dict         : a function from field names to values           *)
(*   Python None         : the record None                                 *)
(*                                                                         *)
(* A value that is computed once and used several times is bound by        *)
(* x \in {e}: CHOOSE out \in {body : x \in {e}} : TRUE is body with x the     *)
(* value of e.                                                             *)
(***************************************************************************)
EXTENDS Integers, Sequences, FiniteSets, TLC

VARIABLES
    linkParser,   \* the LinkParser object: [links, in_link, exc]
    fed,          \* the tokens handed to the LinkParser so far
    routeParser,  \* the RouteParser object: [routes, in_routes, in_a, in_id,
                  \*   in_description, exc]
    routeFed,     \* what the markup handed to the RouteParser so far amounts to:
                  \*   [n, tok, lists, sections, anchors]
    files,        \* the persisted files: file name -> text
    dirs,         \* the directories that exist
    prod,         \* cache scenario: what each key's producer returns or raises
    history,      \* cache scenario: the calls and deletions so far, oldest first
    net,          \* URL -> [status, text]: the site, the same for a whole behaviour
    run,          \* the command: [pc, exc, args, events, idx, features, parsed,
                  \*   fetched, errors, step]
    built,        \* what the last call of get_events saw and returned, or None
    output,       \* the content of runcity_points.js, or None
    log           \* the finished commands and the operator's deletions, oldest first

vars == <<linkParser, fed, routeParser, routeFed, files, dirs, prod, history,
         net, run, built, output, log>>

linkVars  == <<linkParser, fed>>
routeVars == <<routeParser, routeFed>>
cacheVars == <<prod, history>>
pipeVars  == <<net, run, built, output, log>>
storeVars == <<files, dirs>>

None == [none |-> TRUE]

(***************************************************************************)
(* str.strip(), str.split()                                                *)
(***************************************************************************)
Whitespace == {" ", "\n", "\r", "\t"}

RECURSIVE LStrip(_)
LStrip(s) ==
    IF s = <<>> THEN <<>>
    ELSE IF Head(s) \in Whitespace THEN LStrip(Tail(s)) ELSE s

RECURSIVE RStrip(_)
RStrip(s) ==
    IF s = <<>> THEN <<>>
    ELSE IF s[Len(s)] \in Whitespace THEN RStrip(SubSeq(s, 1, Len(s) - 1)) ELSE s

Strip(s) == RStrip(LStrip(s))

\* the number of words str.split() returns: maximal runs of non-whitespace
RECURSIVE WordCount(_, _)
WordCount(s, inWord) ==
    IF s = <<>> THEN 0
    ELSE IF Head(s) \in Whitespace THEN WordCount(Tail(s), FALSE)
    ELSE (IF inWord THEN 0 ELSE 1) + WordCount(Tail(s), TRUE)

(***************************************************************************)
(* dict(attrs): the last pair with a name wins                             *)
(***************************************************************************)
HasAttr(attrs, name) == \E i \in 1..Len(attrs) : attrs[i][1] = name

GetAttr(attrs, name) ==
    LET i == CHOOSE j \in 1..Len(attrs) :
                 /\ attrs[j][1] = name
                 /\ \A k \in (j + 1)..Len(attrs) : attrs[k][1] # name
    IN  attrs[i][2]

StartTag(tag, attrs) == [type |-> "start", tag |-> tag, attrs |-> attrs, data |-> <<>>]
EndTag(tag)          == [type |-> "end",   tag |-> tag, attrs |-> <<>>,  data |-> <<>>]
Data(text)           == [type |-> "data",  tag |-> "",  attrs |-> <<>>,  data |-> text]

(***************************************************************************)
(* class LinkParser                                                        *)
(***************************************************************************)
LinkParser_init == [links |-> <<>>, in_link |-> None, exc |-> "none"]

LinkParser_handle_starttag(p, tag, attrs) ==
    IF tag = "a"
    THEN IF HasAttr(attrs, "href")
         THEN [p EXCEPT !.in_link = GetAttr(attrs, "href")]
         ELSE [p EXCEPT !.exc = "KeyError"]
    ELSE p

LinkParser_handle_endtag(p, tag) ==
    IF tag = "a" THEN [p EXCEPT !.in_link = None] ELSE p

LinkParser_handle_data(p, data) ==
    IF p.in_link # None
    THEN [p EXCEPT !.links = Append(@, <<p.in_link, Strip(data)>>)]
    ELSE p

LinkParser_handle(p, tok) ==
    CASE tok.type = "start" -> LinkParser_handle_starttag(p, tok.tag, tok.attrs)
      [] tok.type = "end"   -> LinkParser_handle_endtag(p, tok.tag)
      [] tok.type = "data"  -> LinkParser_handle_data(p, tok.data)

LinkParser_get_result(p) == p.links

\* html.parser hands the tokens of the fed text, from the i-th on, to the
\* handlers in document order; a handler's exception ends the feed
RECURSIVE LinkParser_feed(_, _, _)
LinkParser_feed(p, text, i) ==
    IF i > Len(text) \/ p.exc # "none" THEN p
    ELSE CHOOSE out \in {LinkParser_feed(q, text, i + 1) :
                             q \in {LinkParser_handle(p, text[i])}} : TRUE

(***************************************************************************)
(* class RouteParser.  A route is a dict: a function from field names.     *)
(***************************************************************************)
RouteParser_init ==
    [routes |-> <<>>, in_routes |-> FALSE, in_a |-> FALSE, in_id |-> FALSE,
     in_description |-> FALSE, exc |-> "none"]

SetField(d, k, v) == (k :> v) @@ d

LastRoute(p) == p.routes[Len(p.routes)]

RouteParser_start_a(p, tag) ==
    IF tag = "a" THEN [p EXCEPT !.in_a = TRUE] ELSE p

RouteParser_start_dt(p, tag, attrs) ==
    IF tag = "dt"
    THEN IF HasAttr(attrs, "id")
         THEN [p EXCEPT !.routes = Append(@, ("id" :> GetAttr(attrs, "id"))),
                        !.in_id = TRUE]
         ELSE [p EXCEPT !.exc = "KeyError"]
    ELSE p

RouteParser_start_abbr(p, tag, attrs) ==
    IF tag = "abbr"
    THEN IF ~HasAttr(attrs, "title") THEN [p EXCEPT !.exc = "KeyError"]
         ELSE IF p.routes = <<>> THEN [p EXCEPT !.exc = "IndexError"]
         ELSE IF ~HasAttr(attrs, "class") THEN [p EXCEPT !.exc = "KeyError"]
         ELSE [p EXCEPT !.routes[Len(p.routes)] =
                            SetField(@, GetAttr(attrs, "class"), GetAttr(attrs, "title"))]
    ELSE p

RouteParser_start_dd(p, tag, attrs) ==
    IF tag = "dd" /\ HasAttr(attrs, "class") /\ GetAttr(attrs, "class") = "description"
    THEN [p EXCEPT !.in_description = TRUE]
    ELSE p

\* a handler that takes the link of an anchor outside the id section too
RouteParser_start_link_anywhere(p, tag, attrs) ==
    IF /\ p.routes # <<>>
       /\ tag = "a"
       /\ "link" \notin DOMAIN LastRoute(p)
       /\ HasAttr(attrs, "href")
    THEN [p EXCEPT !.routes[Len(p.routes)] = SetField(@, "link", GetAttr(attrs, "href"))]
    ELSE p

RouteParser_start_link(p, tag, attrs) ==
    IF /\ p.in_id
       /\ tag = "a"
       /\ "link" \notin DOMAIN LastRoute(p)
       /\ HasAttr(attrs, "href")
    THEN [p EXCEPT !.routes[Len(p.routes)] = SetField(@, "link", GetAttr(attrs, "href"))]
    ELSE p

\* the five ifs of handle_starttag run in order; an exception ends the handler
RouteParser_handle_starttag(p, tag, attrs) ==
    IF ~p.in_routes
    THEN IF tag = "dl" /\ HasAttr(attrs, "class") /\ GetAttr(attrs, "class") = "route"
         THEN [p EXCEPT !.in_routes = TRUE]
         ELSE p
    ELSE LET p1 == RouteParser_start_a(p, tag)
             p2 == RouteParser_start_dt(p1, tag, attrs)
             p3 == IF p2.exc # "none" THEN p2 ELSE RouteParser_start_abbr(p2, tag, attrs)
             p4 == IF p3.exc # "none" THEN p3 ELSE RouteParser_start_dd(p3, tag, attrs)
         IN  IF p4.exc # "none" THEN p4 ELSE RouteParser_start_link(p4, tag, attrs)

RouteParser_handle_endtag(p, tag) ==
    IF ~p.in_routes THEN p
    ELSE LET p1 == IF tag = "dl" THEN [p EXCEPT !.in_routes = FALSE] ELSE p
             p2 == IF p1.in_a /\ tag = "a" THEN [p1 EXCEPT !.in_a = FALSE] ELSE p1
             p3 == IF p2.in_id /\ tag = "dt" THEN [p2 EXCEPT !.in_id = FALSE] ELSE p2
         IN  IF p3.in_description /\ tag = "dd"
             THEN [p3 EXCEPT !.in_description = FALSE]
             ELSE p3

GetField(d, k, default) == IF k \in DOMAIN d THEN d[k] ELSE default

\* a handler that takes text whatever in_routes says
RouteParser_handle_data_ungated(p, data) ==
    IF (p.in_id \/ p.in_description) /\ ~p.in_a /\ p.routes = <<>>
    THEN [p EXCEPT !.exc = "IndexError"]
    ELSE IF p.in_id /\ ~p.in_a
    THEN [p EXCEPT !.routes[Len(p.routes)] =
             SetField(@, "title", GetField(@, "title", <<>>) \o Strip(data))]
    ELSE p

\* self.routes[-1] of an empty list raises IndexError
RouteParser_handle_data(p, data) ==
    IF ~p.in_routes THEN p
    ELSE IF (p.in_id \/ p.in_description) /\ ~p.in_a /\ p.routes = <<>>
    THEN [p EXCEPT !.exc = "IndexError"]
    ELSE LET text == Strip(data)
             p1 == IF p.in_id /\ ~p.in_a
                   THEN [p EXCEPT !.routes[Len(p.routes)] =
                            SetField(@, "title", GetField(@, "title", <<>>) \o text)]
                   ELSE p
         IN  IF p1.in_description /\ ~p1.in_a
             THEN [p1 EXCEPT !.routes[Len(p1.routes)] =
                      SetField(@, "description", GetField(@, "description", <<>>) \o text)]
             ELSE p1

RouteParser_handle(p, tok) ==
    CASE tok.type = "start" -> RouteParser_handle_starttag(p, tok.tag, tok.attrs)
      [] tok.type = "end"   -> RouteParser_handle_endtag(p, tok.tag)
      [] tok.type = "data"  -> RouteParser_handle_data(p, tok.data)

RouteParser_get_result(p) == p.routes

RECURSIVE RouteParser_feed(_, _, _)
RouteParser_feed(p, text, i) ==
    IF i > Len(text) \/ p.exc # "none" THEN p
    ELSE CHOOSE out \in {RouteParser_feed(q, text, i + 1) :
                             q \in {RouteParser_handle(p, text[i])}} : TRUE

\* process_html(get_parser, text): the result, or the handler's exception
process_html_links(text) ==
    CHOOSE out \in
        {[ret |-> LinkParser_get_result(p), exc |-> p.exc] :
            p \in {LinkParser_feed(LinkParser_init, t, 1) : t \in {text}}} : TRUE

process_html_routes(text) ==
    CHOOSE out \in
        {[ret |-> RouteParser_get_result(p), exc |-> p.exc] :
            p \in {RouteParser_feed(RouteParser_init, t, 1) : t \in {text}}} : TRUE

(***************************************************************************)
(* URLs and file names.  Every URL is on the site's host, so a URL is its  *)
(* path.  A file name is [dir, name, ext]; event ids hold no dot, so       *)
(* os.path.splitext sees an extension only where the program spells one.   *)
(***************************************************************************)
Path(abs, segs, dir) == [abs |-> abs, segs |-> segs, dir |-> dir]

Front(s) == SubSeq(s, 1, Len(s) - 1)

\* urllib.parse.urljoin(base, ref) for references without dot segments
urljoin(base, ref) ==
    IF ref.abs THEN ref
    ELSE IF ref.segs = <<>> THEN base
    ELSE Path(TRUE, (IF base.dir THEN base.segs ELSE Front(base.segs)) \o ref.segs, ref.dir)

\* url + 'all/': plain string concatenation
PlusAll(url) ==
    IF url.dir \/ url.segs = <<>>
    THEN Path(TRUE, url.segs \o <<"all">>, TRUE)
    ELSE Path(TRUE, Front(url.segs) \o <<url.segs[Len(url.segs)] \o "all">>, TRUE)

\* '/events/' in link
ContainsEvents(link) ==
    \E i \in 1..Len(link.segs) :
        /\ link.segs[i] = "events"
        /\ i > 1 \/ link.abs
        /\ i < Len(link.segs) \/ link.dir

\* os.path.basename(link.rstrip('/'))
Basename(link) == IF link.segs = <<>> THEN "" ELSE link.segs[Len(link.segs)]

RUNCITY_ROOT == Path(TRUE, <<"ru">>, TRUE)

\* the ids of NO_ROUTE_GAMES
NO_ROUTE_GAMES ==
    {"pushkin2005", "dobrypiter2008", "dobrypiter2009", "ekb2009", "ekb2010",
     "magnitogorsk2011", "verhneuralsk2011", "ekb2011", "magnitogorsk2012",
     "concert2012", "metromsk2012", "victory2012", "ekb2012", "ufa2012",
     "deephigh2012", "metropolia2013", "magnitogorsk2013", "ekb2013",
     "college2013", "ufa2013", "constructivnoekb", "nizhnynovgorod2014",
     "magnitogorsk2014", "vuoksa2014", "ufa2014", "cleanpeterhof2015",
     "magnitogorsk2015", "verhneuralsk2015", "cleankuyvozi2015", "krapivin2016",
     "nizhnynovgorod2016", "ufa2016", "intellectuada2018autumn", "kazan2019",
     "intellectuada2021spring", "poets2021", "vdnh", "onlineintegral2021"}

FileName(dir, name, ext) == [dir |-> dir, name |-> name, ext |-> ext]

EventsJson  == FileName(<<"cache">>, "events", ".json")
ArchiveHtml == FileName(<<"cache", "events">>, "archive", ".html")
ParsedPath(id) == FileName(<<"cache", "parsed">>, id, ".json")
MainFile(id)   == FileName(<<"cache", "events">>, id, "")
RoutesFile(id) == FileName(<<"cache", "routes_all">>, id, "")

(***************************************************************************)
(* Text files and JSON.  A file holds text: a token sequence.  open(fname) *)
(* reads with universal newlines; open(fname, 'w') writes '\n' as it is.   *)
(* json.dumps(v, sort_keys=True) writes one JSON document, each object its *)
(* members in key order; json.loads rebuilds the value from the members.   *)
(***************************************************************************)
RECURSIVE UniversalNewlines(_)
UniversalNewlines(s) ==
    IF s = <<>> THEN <<>>
    ELSE IF Head(s) = "\r"
         THEN IF Len(s) > 1 /\ s[2] = "\n"
              THEN <<"\n">> \o UniversalNewlines(Tail(Tail(s)))
              ELSE <<"\n">> \o UniversalNewlines(Tail(s))
         ELSE <<Head(s)>> \o UniversalNewlines(Tail(s))

\* fobj.read() of a file opened in text mode
ReadText(content) ==
    [i \in 1..Len(content) |->
        IF content[i].type = "data"
        THEN [content[i] EXCEPT !.data = UniversalNewlines(@)]
        ELSE content[i]]

\* fobj.write(text) of a file opened with 'w'
WriteText(text) == text

\* the field names the program's dicts use, in sort_keys order
FieldOrder ==
    <<"description", "id", "is_parsed", "latitude", "link", "longitude", "note",
      "parsed_path", "title", "url">>

\* a Python list, and the dict without keys
PyList(items) == [list |-> items]
EmptyDict == [dict |-> <<>>]

\* a value that may be None
Some(x) == [some |-> x]

\* the members of a dict, sorted by key
Members(d) ==
    LET keys == SelectSeq(FieldOrder, LAMBDA k : k \in DOMAIN d)
    IN  [i \in 1..Len(keys) |-> <<keys[i], d[keys[i]]>>]

DictOf(members) ==
    [k \in {members[i][1] : i \in 1..Len(members)} |-> GetAttr(members, k)]

JsonDoc(doc) == [type |-> "json", tag |-> "", attrs |-> <<>>, data |-> doc]

\* a dumps that loses an object's first member
json_dumps_dropping(value) ==
    IF value = EmptyDict
    THEN << JsonDoc([kind |-> "object", items |-> <<>>]) >>
    ELSE << JsonDoc([kind |-> "array",
                     items |-> [i \in 1..Len(value.list) |->
                                   Tail(Members(value.list[i]))]]) >>

\* json.dumps(value, indent=4, sort_keys=True): {} or a list of dicts
json_dumps(value) ==
    IF value = EmptyDict
    THEN << JsonDoc([kind |-> "object", items |-> <<>>]) >>
    ELSE << JsonDoc([kind |-> "array",
                     items |-> [i \in 1..Len(value.list) |-> Members(value.list[i])]]) >>

json_loads(text) ==
    LET doc == text[1].data
    IN  IF doc.kind = "object" THEN EmptyDict
        ELSE PyList([i \in 1..Len(doc.items) |-> DictOf(doc.items[i])])

\* for item in parsed: a dict without keys yields nothing
Items(parsed) == IF parsed = EmptyDict THEN <<>> ELSE parsed.list

(***************************************************************************)
(* cache_wrapper(fname, use_cache)(func).  The program state a call works  *)
(* on is st = [files, dirs, fetched, errors]; a call returns               *)
(* [st, ret, exc, links, raw].  The wrapper is its three parts around the  *)
(* call of func: cache_enter, then either cache_load or func and           *)
(* cache_finish.                                                           *)
(***************************************************************************)
Ok(st, ret)     == [st |-> st, ret |-> ret, exc |-> "none", links |-> None, raw |-> None]
Raise(st, exc)  == [st |-> st, ret |-> None, exc |-> exc, links |-> None, raw |-> None]

\* a result together with what the call saw on its way: the Link Extractor's
\* pairs and the Route Extractor's records (None where it did not get there)
Seen(r, links, raw) == [r EXCEPT !.links = links, !.raw = raw]

Exists(st, fname) == fname \in DOMAIN st.files

Prefixes(dir) == {SubSeq(dir, 1, n) : n \in 1..Len(dir)}

\* if use_cache: os.makedirs(os.path.dirname(fname), exist_ok=True)
cache_enter(st, fname, use_cache) ==
    IF use_cache /\ fname.dir # <<>>
    THEN [st EXCEPT !.dirs = @ \cup Prefixes(fname.dir)]
    ELSE st

\* a wrapper that never looks the file up
cache_hit_never(st, fname, use_cache) == FALSE

\* if use_cache: ... if os.path.exists(fname)
cache_hit(st, fname, use_cache) == use_cache /\ Exists(st, fname)

cache_load(st, fname) ==
    LET to_return == ReadText(st.files[fname])
    IN  IF fname.ext = ".json" THEN json_loads(to_return) ELSE to_return

\* a wrapper that writes the file whatever use_cache says
cache_store_always(st, fname, use_cache, to_return) ==
    LET to_store == IF fname.ext = ".json" THEN json_dumps(to_return) ELSE to_return
    IN  [st EXCEPT !.files = (fname :> WriteText(to_store)) @@ @]

\* to_store = ...; if use_cache: open(fname, 'w').write(to_store)
cache_store(st, fname, use_cache, to_return) ==
    LET to_store == IF fname.ext = ".json" THEN json_dumps(to_return) ELSE to_return
    IN  IF use_cache
        THEN [st EXCEPT !.files = (fname :> WriteText(to_store)) @@ @]
        ELSE st

\* a wrapper that opens the file for writing before it calls func: an
\* exception of func leaves an empty file behind
cache_finish_truncating(r, fname, use_cache) ==
    CHOOSE out \in
        {IF q.exc # "none"
         THEN IF use_cache THEN [q EXCEPT !.st.files = (fname :> <<>>) @@ @] ELSE q
         ELSE [q EXCEPT !.st = cache_store(q.st, fname, use_cache, q.ret)] :
            q \in {r}} : TRUE

\* what follows func's return; an exception of func leaves the wrapper at once
cache_finish(r, fname, use_cache) ==
    CHOOSE out \in
        {IF q.exc # "none" THEN q
         ELSE [q EXCEPT !.st = cache_store(q.st, fname, use_cache, q.ret)] :
            q \in {r}} : TRUE

\* cache_wrapper(fname, use_cache)(func)(...) called in state st, where r is
\* what func returns when called in state cache_enter(st, fname, use_cache)
cache_wrapper(st, fname, use_cache, r) ==
    LET st1 == cache_enter(st, fname, use_cache)
    IN  IF cache_hit(st1, fname, use_cache)
        THEN Ok(st1, cache_load(st1, fname))
        ELSE cache_finish(r, fname, use_cache)

(***************************************************************************)
(* The network and the pipeline functions.  net maps a URL to the response *)
(* the site gives: [status, text].                                         *)
(***************************************************************************)
Responds(url) == url \in DOMAIN net /\ net[url].status = "200"

\* requests.get(url); req.raise_for_status(); return req.text
do_get_html(st, url) ==
    LET st1 == [st EXCEPT !.fetched = Append(@, url)]
    IN  IF Responds(url) THEN Ok(st1, net[url].text) ELSE Raise(st1, "HTTPError")

\* a get_html that goes to the network every time and keeps nothing
get_html_unsaved(st, args, fname, url) == do_get_html(st, url)

get_html(st, args, fname, url) ==
    LET use_cache == ~args.disable_html_cache
    IN  cache_wrapper(st, fname, use_cache,
                      do_get_html(cache_enter(st, fname, use_cache), url))

ArchiveUrl == urljoin(RUNCITY_ROOT, Path(FALSE, <<"events", "archive">>, FALSE))

\* if len(data.split()) > 1 and '/events/' in link
IsEventLink(pair) == WordCount(pair[2], FALSE) > 1 /\ ContainsEvents(pair[1])

MakeEvent(st, url, pair) ==
    LET id == Basename(pair[1])
    IN  [id |-> id, url |-> urljoin(url, pair[1]), title |-> pair[2],
         parsed_path |-> ParsedPath(id),
         is_parsed |-> Exists(st, ParsedPath(id))]

Reversed(s) == [i \in 1..Len(s) |-> s[Len(s) + 1 - i]]

\* a builder that keeps the extraction order
events_of_links_unreversed(st, url, links) ==
    LET kept == SelectSeq(links, IsEventLink)
    IN  [i \in 1..Len(kept) |-> MakeEvent(st, url, kept[i])]

\* the list comprehension of get_events, the for loop and the reversal
events_of_links(st, url, links) ==
    LET kept == SelectSeq(links, IsEventLink)
    IN  Reversed([i \in 1..Len(kept) |-> MakeEvent(st, url, kept[i])])

\* get_events after text = get_html(...)
events_of_text(st, text) ==
    CHOOSE out \in
        {IF links.exc # "none" THEN Seen(Raise(st, links.exc), None, None)
         ELSE Seen(Ok(st, PyList(events_of_links(st, ArchiveUrl, links.ret))),
                   Some(links.ret), None) :
            links \in {process_html_links(text)}} : TRUE

\* the body of get_events
get_events_body(st, args) ==
    CHOOSE out \in
        {IF r.exc # "none" THEN Seen(r, None, None) ELSE events_of_text(r.st, r.ret) :
            r \in {get_html(st, args, ArchiveHtml, ArchiveUrl)}} : TRUE

\* get_events as decorated: @cache_wrapper('cache/events.json')
get_events(st, args) ==
    cache_wrapper(st, EventsJson, TRUE,
                  get_events_body(cache_enter(st, EventsJson, TRUE), args))

\* 'Маршрут', 'Маршруты', 'Контрольные пункты', 'Маршруты соренований',
\* letter by letter in Latin transliteration
RouteLabels ==
    { <<"M", "a", "r", "s", "h", "r", "u", "t">>,
      <<"M", "a", "r", "s", "h", "r", "u", "t", "y">>,
      <<"K", "o", "n", "t", "r", "o", "l", "n", "y", "e", " ", "p", "u", "n", "k", "t", "y">>,
      <<"M", "a", "r", "s", "h", "r", "u", "t", "y", " ",
        "s", "o", "r", "e", "n", "o", "v", "a", "n", "i", "j">> }

IsRoutesLink(pair) == Strip(pair[2]) \in RouteLabels

HasRoutesLink(links) == \E i \in 1..Len(links) : IsRoutesLink(links[i])

FirstRoutesLink(links) ==
    links[CHOOSE i \in 1..Len(links) :
              /\ IsRoutesLink(links[i])
              /\ \A j \in 1..(i - 1) : ~IsRoutesLink(links[j])][1]

\* float(text): the numerals of the model and the float each denotes
Numerals == {"55.7", "55.70", "37.6"}
IsNumeral(text) == text \in Numerals
Float(text) == [float |-> IF text = "55.70" THEN "55.7" ELSE text]

\* the for-else branch of parse_event taken by a log that has the test inverted
no_routes_found_inverted(st, event) ==
    Ok(IF event.id \in NO_ROUTE_GAMES
       THEN [st EXCEPT !.errors = Append(@, event.id)]
       ELSE st,
       EmptyDict)

\* the else branch of the for loop of parse_event
no_routes_found(st, event) ==
    Ok(IF event.id \notin NO_ROUTE_GAMES
       THEN [st EXCEPT !.errors = Append(@, event.id)]
       ELSE st,
       EmptyDict)

\* the exception one pass of the loop over items raises, or "none"
ItemError(item) ==
    IF "longitude" \notin DOMAIN item /\ "latitude" \notin DOMAIN item THEN "none"
    ELSE IF "longitude" \notin DOMAIN item THEN "KeyError"
    ELSE IF ~IsNumeral(item["longitude"]) THEN "ValueError"
    ELSE IF "latitude" \notin DOMAIN item THEN "KeyError"
    ELSE IF ~IsNumeral(item["latitude"]) THEN "ValueError"
    ELSE IF "link" \notin DOMAIN item THEN "KeyError"
    ELSE "none"

SkipItem(item) == "longitude" \notin DOMAIN item /\ "latitude" \notin DOMAIN item

ConvertItem(item, all_routes_url) ==
    SetField(SetField(SetField(item,
        "longitude", Float(item["longitude"])),
        "latitude", Float(item["latitude"])),
        "url", urljoin(all_routes_url, item["link"]))

\* the loop over items of parse_event: [ret, exc]
RECURSIVE keep_items(_, _, _)
keep_items(items, all_routes_url, result) ==
    IF items = <<>> THEN [ret |-> result, exc |-> "none"]
    ELSE LET item == Head(items)
         IN  IF ItemError(item) # "none" THEN [ret |-> None, exc |-> ItemError(item)]
             ELSE IF SkipItem(item) THEN keep_items(Tail(items), all_routes_url, result)
             ELSE CHOOSE out \in
                     {keep_items(Tail(items), all_routes_url, kept) :
                         kept \in {Append(result, ConvertItem(item, all_routes_url))}} : TRUE

AllRoutesUrl(event) == urljoin(event.url, Path(FALSE, <<"routes", "all">>, TRUE))

\* parse_event from items = process_html(RouteParser, routes) on
filter_items(st, items, all_routes_url) ==
    CHOOSE out \in
        {IF kept.exc # "none" THEN Seen(Raise(st, kept.exc), None, Some(items))
         ELSE Seen(Ok(st, PyList(kept.ret)), None, Some(items)) :
            kept \in {keep_items(items, all_routes_url, <<>>)}} : TRUE

\* parse_event after routes = get_html(...)
items_of_text(st, text, all_routes_url) ==
    CHOOSE out \in
        {IF items.exc # "none" THEN Seen(Raise(st, items.exc), None, None)
         ELSE filter_items(st, items.ret, all_routes_url) :
            items \in {process_html_routes(text)}} : TRUE

\* parse_event after the routes link was found
parse_routes(st, args, event) ==
    CHOOSE out \in
        {IF r.exc # "none" THEN Seen(r, None, None)
         ELSE items_of_text(r.st, r.ret, AllRoutesUrl(event)) :
            r \in {get_html(st, args, RoutesFile(event.id), AllRoutesUrl(event))}} : TRUE

\* parse_event after event_main_text = get_html(...)
parse_main(st, args, event, text) ==
    CHOOSE out \in
        {IF links.exc # "none" THEN Seen(Raise(st, links.exc), None, None)
         ELSE IF ~HasRoutesLink(links.ret)
              THEN Seen(no_routes_found(st, event), Some(links.ret), None)
         ELSE IF PlusAll(urljoin(event.url, FirstRoutesLink(links.ret)))
                    # AllRoutesUrl(event)
              THEN Seen(Raise(st, "AssertionError"), Some(links.ret), None)
         ELSE CHOOSE seen \in {Seen(q, Some(links.ret), q.raw) :
                                  q \in {parse_routes(st, args, event)}} : TRUE :
            links \in {process_html_links(text)}} : TRUE

parse_event(st, args, event) ==
    CHOOSE out \in
        {IF r.exc # "none" THEN Seen(r, None, None)
         ELSE parse_main(r.st, args, event, r.ret) :
            r \in {get_html(st, args, MainFile(event.id), event.url)}} : TRUE

\* a feature numbered from one
make_feature_from_one(event, item, features) ==
    [type |-> "Feature",
     id |-> Len(features) + 1,
     geometry |-> [type |-> "Point",
                   coordinates |-> <<item["latitude"], item["longitude"]>>],
     properties |->
        [balloonContentHeader |-> event.title \o <<":", " ">> \o item["title"],
         balloonContentBody |-> GetField(item, "description", <<>>),
         balloonContentFooter |-> <<"<a href=\"", item["url"], "\">", item["url"], "</a>">>]]

\* the feature dict of update_events; float() of a float is that float
make_feature(event, item, features) ==
    [type |-> "Feature",
     id |-> Len(features),
     geometry |-> [type |-> "Point",
                   coordinates |-> <<item["latitude"], item["longitude"]>>],
     properties |->
        [balloonContentHeader |-> event.title \o <<":", " ">> \o item["title"],
         balloonContentBody |-> GetField(item, "description", <<>>),
         balloonContentFooter |-> <<"<a href=\"", item["url"], "\">", item["url"], "</a>">>]]

\* for item in parsed: ... features.append(feature): [ret, exc]
RECURSIVE add_features(_, _, _)
add_features(event, items, features) ==
    IF items = <<>> THEN [ret |-> features, exc |-> "none"]
    ELSE IF "title" \notin DOMAIN Head(items) THEN [ret |-> features, exc |-> "KeyError"]
    ELSE CHOOSE out \in
            {add_features(event, Tail(items), more) :
                more \in {Append(features, make_feature(event, Head(items), features))}} : TRUE

\* parse_event as update_events wraps it
cached_parse_event(st, args, event) ==
    cache_wrapper(st, event.parsed_path, args.use_cache,
                  parse_event(cache_enter(st, event.parsed_path, args.use_cache),
                              args, event))

\* 'function get_runcity_points() {return ' + json.dumps(data) + ';}'
js_data(features) ==
    << "function get_runcity_points() {return ",
       [type |-> "FeatureCollection", features |-> features],
       ";}" >>

(***************************************************************************)
(* The Route Extractor driven one token at a time.  routeFed keeps what    *)
(* the markup itself says, whatever the parser made of it: how many list   *)
(* elements, entry sections and anchors stand open after the last token.   *)
(***************************************************************************)
MaxRouteFed == 7

IsContainer(tok) ==
    /\ tok.type = "start" /\ tok.tag = "dl"
    /\ HasAttr(tok.attrs, "class") /\ GetAttr(tok.attrs, "class") = "route"

Decrement(n) == IF n > 0 THEN n - 1 ELSE 0

\* the open list elements: the container and the lists nested in it
ListsAfter(lists, tok) ==
    IF tok.type = "start" /\ tok.tag = "dl"
    THEN IF lists > 0 \/ IsContainer(tok) THEN lists + 1 ELSE 0
    ELSE IF tok.type = "end" /\ tok.tag = "dl" THEN Decrement(lists)
    ELSE lists

\* the open dt and dd elements of the container
SectionsAfter(m, tok) ==
    IF ListsAfter(m.lists, tok) = 0 THEN 0
    ELSE IF tok.type = "start" /\ tok.tag \in {"dt", "dd"} /\ m.lists > 0
         THEN m.sections + 1
    ELSE IF tok.type = "end" /\ tok.tag \in {"dt", "dd"} THEN Decrement(m.sections)
    ELSE m.sections

\* the open anchors
AnchorsAfter(anchors, tok) ==
    IF tok.type = "start" /\ tok.tag = "a" THEN anchors + 1
    ELSE IF tok.type = "end" /\ tok.tag = "a" THEN Decrement(anchors)
    ELSE anchors

Mark(m, tok) ==
    [n |-> m.n + 1, tok |-> tok, lists |-> ListsAfter(m.lists, tok),
     sections |-> SectionsAfter(m, tok), anchors |-> AnchorsAfter(m.anchors, tok)]

Unfed == [n |-> 0, tok |-> None, lists |-> 0, sections |-> 0, anchors |-> 0]

RouteLinkX == Path(TRUE, <<"x">>, FALSE)
RouteLinkY == Path(TRUE, <<"y">>, FALSE)

RouteStarts ==
    { StartTag("dl", << <<"class", "route">> >>),
      StartTag("dl", <<>>),
      StartTag("dt", << <<"id", "r1">> >>),
      StartTag("dd", << <<"class", "description">> >>),
      StartTag("a", << <<"href", RouteLinkX>> >>),
      StartTag("a", <<>>),
      StartTag("abbr", << <<"class", "latitude">>, <<"title", "55.7">> >>),
      StartTag("abbr", << <<"class", "link">>, <<"title", RouteLinkY>> >>) }

RouteEnds == {"dl", "dt", "dd", "a"}

RouteTexts == { <<"t">> }

RouteInit ==
    /\ routeParser = RouteParser_init
    /\ routeFed = Unfed
    /\ linkParser = LinkParser_init /\ fed = <<>>
    /\ files = <<>> /\ dirs = {}
    /\ prod = <<>> /\ history = <<>>
    /\ net = <<>> /\ run = None /\ built = None /\ output = None /\ log = <<>>

RouteCanFeed == routeFed.n < MaxRouteFed /\ routeParser.exc = "none"

RouteStartTag ==
    /\ RouteCanFeed
    /\ \E tok \in RouteStarts :
          /\ routeParser' = RouteParser_handle_starttag(routeParser, tok.tag, tok.attrs)
          /\ routeFed' = Mark(routeFed, tok)
    /\ UNCHANGED <<linkVars, storeVars, cacheVars, pipeVars>>

RouteEndTag ==
    /\ RouteCanFeed
    /\ \E tag \in RouteEnds :
          /\ routeParser' = RouteParser_handle_endtag(routeParser, tag)
          /\ routeFed' = Mark(routeFed, EndTag(tag))
    /\ UNCHANGED <<linkVars, storeVars, cacheVars, pipeVars>>

RouteData ==
    /\ RouteCanFeed
    /\ \E text \in RouteTexts :
          /\ routeParser' = RouteParser_handle_data(routeParser, text)
          /\ routeFed' = Mark(routeFed, Data(text))
    /\ UNCHANGED <<linkVars, storeVars, cacheVars, pipeVars>>

RouteNext == RouteStartTag \/ RouteEndTag \/ RouteData

SpecRoute == RouteInit /\ [][RouteNext]_vars

\* the token the step hands to the parser
Fed(type, tag) == routeFed'.tok.type = type /\ routeFed'.tok.tag = tag

HasLink(route) == "link" \in DOMAIN route

\* C12: while the container is open, an end tag closes the gate exactly when
\* it is the end of the container itself, not of a list nested in it or of
\* any other element; a dt start that follows a nested list inside the
\* container still appends its record.
C12_GateClosedByContainerEnd ==
    [][ /\ (routeParser.in_routes /\ routeFed.lists >= 1 /\ routeFed'.tok.type = "end")
           => (routeParser'.in_routes <=> ~(Fed("end", "dl") /\ routeFed.lists = 1))
        /\ (routeFed.lists >= 1 /\ Fed("start", "dt"))
           => Len(routeParser'.routes) = Len(routeParser.routes) + 1
      ]_vars

\* C13: a token handled while the gate is false leaves the records and the
\* flags in_a, in_id and in_description as they were and raises nothing; the
\* gate opens if the token is a container start and stays false otherwise.
C13_InertWhileGateFalse ==
    [][ (~routeParser.in_routes /\ routeFed'.n = routeFed.n + 1)
        => /\ routeParser'.routes = routeParser.routes
           /\ routeParser'.in_a = routeParser.in_a
           /\ routeParser'.in_id = routeParser.in_id
           /\ routeParser'.in_description = routeParser.in_description
           /\ routeParser'.exc = "none"
           /\ routeParser'.in_routes = IsContainer(routeFed'.tok)
      ]_vars

\* a text was handled with the gate false while in_id and a record were there
C13_GateFalseWithFlags ==
    /\ routeFed.n >= 4
    /\ routeFed.tok.type = "data"
    /\ ~routeParser.in_routes /\ routeParser.in_id /\ ~routeParser.in_a
    /\ routeParser.routes # <<>>

\* C14: a text handled while an anchor stands open changes no record.
C14_LinkLabelSuppressed ==
    [][ (routeFed.anchors > 0 /\ routeFed'.tok.type = "data")
        => routeParser'.routes = routeParser.routes
      ]_vars

\* C15: a record's link, once set, stays as it is; a link is set only on the
\* last record, by an anchor start with an href handled while in_id is true,
\* and it is that href.
C15_FirstLinkWins ==
    [][ /\ \A i \in 1..Len(routeParser.routes) :
              HasLink(routeParser.routes[i])
              => /\ HasLink(routeParser'.routes[i])
                 /\ routeParser'.routes[i]["link"] = routeParser.routes[i]["link"]
        /\ \A i \in 1..Len(routeParser'.routes) :
              ( /\ HasLink(routeParser'.routes[i])
                /\ i <= Len(routeParser.routes) => ~HasLink(routeParser.routes[i]) )
              => /\ Fed("start", "a") /\ HasAttr(routeFed'.tok.attrs, "href")
                 /\ routeParser.in_id
                 /\ i = Len(routeParser'.routes)
                 /\ routeParser'.routes[i]["link"] = GetAttr(routeFed'.tok.attrs, "href")
      ]_vars

\* the link of the i-th record differs across the step, or is new
LinkChanged(i) ==
    /\ HasLink(routeParser'.routes[i])
    /\ (i <= Len(routeParser.routes) /\ HasLink(routeParser.routes[i]))
       => routeParser'.routes[i]["link"] # routeParser.routes[i]["link"]

\* C15, with the abbr rule counted in: no step takes a link away; a link is set or changed only on
\* the last record, and only by an anchor start with an href handled while
\* in_id is true and the record has no link (it becomes that href), or by an
\* abbr start whose class is "link" (it becomes that abbr's title).
C15_FirstAnchorWins ==
    [][ /\ \A i \in 1..Len(routeParser.routes) :
              HasLink(routeParser.routes[i]) => HasLink(routeParser'.routes[i])
        /\ \A i \in 1..Len(routeParser'.routes) :
              LinkChanged(i)
              => /\ i = Len(routeParser.routes)
                 /\ \/ /\ Fed("start", "a") /\ HasAttr(routeFed'.tok.attrs, "href")
                       /\ routeParser.in_id
                       /\ ~HasLink(routeParser.routes[i])
                       /\ routeParser'.routes[i]["link"]
                              = GetAttr(routeFed'.tok.attrs, "href")
                    \/ /\ Fed("start", "abbr")
                       /\ GetAttr(routeFed'.tok.attrs, "class") = "link"
                       /\ routeParser'.routes[i]["link"]
                              = GetAttr(routeFed'.tok.attrs, "title")
      ]_vars

\* an anchor with an href was handled in the description section of a record
\* that has its link
C15_LaterAnchorSeen ==
    /\ routeFed.n >= 5
    /\ routeFed.tok.type = "start" /\ routeFed.tok.tag = "a"
    /\ HasAttr(routeFed.tok.attrs, "href")
    /\ routeParser.in_routes /\ ~routeParser.in_id /\ routeParser.in_description
    /\ routeParser.routes # <<>>
    /\ HasLink(LastRoute(routeParser))

\* C16: an abbr start changes no record but the last one, and changes no
\* record at all when no dt or dd of the container stands open.
C16_AbbrInsideEntryOnly ==
    [][ Fed("start", "abbr")
        => /\ Len(routeParser'.routes) = Len(routeParser.routes)
           /\ \A i \in 1..(Len(routeParser.routes) - 1) :
                 routeParser'.routes[i] = routeParser.routes[i]
           /\ routeFed.sections = 0 => routeParser'.routes = routeParser.routes
      ]_vars

\* C18: no handler finds the record list empty when it reaches for the last
\* record (no IndexError), and in_id or in_description true means that a
\* record exists.
C18_CurrentRecordExists ==
    /\ routeParser.exc # "IndexError"
    /\ routeParser.in_id => routeParser.routes # <<>>
    /\ routeParser.in_description => routeParser.routes # <<>>

\* C19: while the gate is false the flags in_a, in_id and in_description are
\* false.
C19_FlagsClearedWithGate ==
    ~routeParser.in_routes
    => ~routeParser.in_a /\ ~routeParser.in_id /\ ~routeParser.in_description

(***************************************************************************)
(* The Link Extractor driven one token at a time.                          *)
(***************************************************************************)
MaxFed == 6

Hello == <<"H", "e", "l", "l", "o", " ">>
World == <<"W", "o", "r", "l", "d">>
HelloWorld == <<"H", "e", "l", "l", "o", " ", "W", "o", "r", "l", "d">>

LinkX == Path(TRUE, <<"x">>, FALSE)

LinkTags  == {"a", "b"}
LinkAttrs == {<< <<"href", LinkX>> >>, <<>>}
LinkTexts == {Hello, World}

LinkInit ==
    /\ linkParser = LinkParser_init
    /\ fed = <<>>
    /\ routeParser = RouteParser_init /\ routeFed = Unfed
    /\ files = <<>> /\ dirs = {}
    /\ prod = <<>> /\ history = <<>>
    /\ net = <<>> /\ run = None /\ built = None /\ output = None /\ log = <<>>

LinkCanFeed == Len(fed) < MaxFed /\ linkParser.exc = "none"

LinkStartTag ==
    /\ LinkCanFeed
    /\ \E tag \in LinkTags, attrs \in LinkAttrs :
          /\ linkParser' = LinkParser_handle_starttag(linkParser, tag, attrs)
          /\ fed' = Append(fed, StartTag(tag, attrs))
    /\ UNCHANGED <<routeVars, storeVars, cacheVars, pipeVars>>

LinkEndTag ==
    /\ LinkCanFeed
    /\ \E tag \in LinkTags :
          /\ linkParser' = LinkParser_handle_endtag(linkParser, tag)
          /\ fed' = Append(fed, EndTag(tag))
    /\ UNCHANGED <<routeVars, storeVars, cacheVars, pipeVars>>

LinkData ==
    /\ LinkCanFeed
    /\ \E text \in LinkTexts :
          /\ linkParser' = LinkParser_handle_data(linkParser, text)
          /\ fed' = Append(fed, Data(text))
    /\ UNCHANGED <<routeVars, storeVars, cacheVars, pipeVars>>

LinkNext == LinkStartTag \/ LinkEndTag \/ LinkData

SpecLink == LinkInit /\ [][LinkNext]_vars

\* One pair per active-link span: a pair is opened by the first text after an
\* anchor start, later text of the span is joined to it, and the joined text
\* is trimmed at its two ends.
RECURSIVE SpanPairs(_, _, _, _)
SpanPairs(toks, cur, open, out) ==
    IF toks = <<>> THEN [i \in 1..Len(out) |-> <<out[i][1], Strip(out[i][2])>>]
    ELSE LET t == Head(toks)
         IN  CASE t.type = "start" /\ t.tag = "a" ->
                    SpanPairs(Tail(toks), GetAttr(t.attrs, "href"), FALSE, out)
               [] t.type = "end" /\ t.tag = "a" ->
                    SpanPairs(Tail(toks), None, FALSE, out)
               [] t.type = "data" /\ cur # None /\ open ->
                    SpanPairs(Tail(toks), cur, TRUE,
                              [out EXCEPT ![Len(out)][2] = @ \o t.data])
               [] t.type = "data" /\ cur # None /\ ~open ->
                    SpanPairs(Tail(toks), cur, TRUE, Append(out, <<cur, t.data>>))
               [] OTHER -> SpanPairs(Tail(toks), cur, open, out)

HelloWorldTokens ==
    << StartTag("a", << <<"href", LinkX>> >>), Data(Hello), StartTag("b", <<>>),
       Data(World), EndTag("b"), EndTag("a") >>

\* C1: for every token sequence the Link Extractor has collected exactly one
\* (link, text) pair per active-link span, its text the trimmed concatenation
\* of the span's text; <a href="/x">Hello <b>World</b></a> gives the single
\* pair (/x, "Hello World").
C1_OnePairPerSpan ==
    linkParser.exc = "none" =>
        /\ linkParser.links = SpanPairs(fed, None, FALSE, <<>>)
        /\ fed = HelloWorldTokens => linkParser.links = << <<LinkX, HelloWorld>> >>

\* the state the code reaches on <a href="/x">Hello <b>World</b></a>
C1_HelloWorldSplit ==
    /\ fed = HelloWorldTokens
    /\ linkParser.links = << <<LinkX, Strip(Hello)>>, <<LinkX, World>> >>

(***************************************************************************)
(* The Fetch Cache on its own: get_or_compute(key, producer, use_cache) is *)
(* cache_wrapper(key, use_cache)(producer)(); each key has one producer,   *)
(* which returns the same value, or raises, at every call.  The operator   *)
(* may delete a file between calls.                                        *)
(***************************************************************************)
MaxCalls == 3

JsonKey == FileName(<<"cache", "parsed">>, "e1", ".json")
TextKey == FileName(<<"cache", "events">>, "e1", "")
CacheKeys == {JsonKey, TextKey}

TextValues ==
    { << StartTag("a", << <<"href", LinkX>> >>), Data(Hello), EndTag("a") >>,
      << Data(<<"a", "\r", "\n", "b">>) >> }

Route1 == [id |-> "r1", latitude |-> Float("55.7"), longitude |-> Float("37.6"),
           title |-> <<"t">>]
Route2 == [id |-> "r2", description |-> <<"d">>]

JsonValues == { EmptyDict, PyList(<<Route1>>), PyList(<<Route2, Route1>>) }

\* what a producer does at every call: return ret, or raise exc
Outcomes(key) ==
    LET values == IF key.ext = ".json" THEN JsonValues ELSE TextValues
    IN  { [ret |-> v, exc |-> e] : v \in values, e \in {"none"} }
        \cup { [ret |-> CHOOSE v \in values : TRUE, exc |-> "HTTPError"] }

Store == [files |-> files, dirs |-> dirs, fetched |-> <<>>, errors |-> <<>>]

\* the producer of key called in state st
Produce(st, key) ==
    IF prod[key].exc = "none" THEN Ok(st, prod[key].ret) ELSE Raise(st, prod[key].exc)

CacheInit ==
    /\ files = <<>> /\ dirs = {}
    /\ \E j \in Outcomes(JsonKey), t \in Outcomes(TextKey) :
          prod = (JsonKey :> j) @@ (TextKey :> t)
    /\ history = <<>>
    /\ linkParser = LinkParser_init /\ fed = <<>>
    /\ routeParser = RouteParser_init /\ routeFed = Unfed
    /\ net = <<>> /\ run = None /\ built = None /\ output = None /\ log = <<>>

CacheCall ==
    /\ Len(history) < MaxCalls
    /\ \E key \in CacheKeys, use_cache \in BOOLEAN :
          \E st1 \in {cache_enter(Store, key, use_cache)} :
          \E r \in {cache_wrapper(Store, key, use_cache, Produce(st1, key))} :
              /\ files' = r.st.files
              /\ dirs' = r.st.dirs
              /\ history' = Append(history,
                    [op |-> "call", key |-> key, use_cache |-> use_cache,
                     existed |-> Exists(Store, key),
                     invoked |-> IF cache_hit(st1, key, use_cache) THEN 0 ELSE 1,
                     ret |-> r.ret, exc |-> r.exc,
                     before |-> Store, after |-> r.st])
    /\ UNCHANGED <<prod, linkVars, routeVars, pipeVars>>

\* a call during which the producer fails, whatever it does at other calls
CacheFault ==
    /\ Len(history) < MaxCalls
    /\ \E key \in CacheKeys, use_cache \in BOOLEAN :
          \E st1 \in {cache_enter(Store, key, use_cache)} :
          \E r \in {cache_wrapper(Store, key, use_cache, Raise(st1, "HTTPError"))} :
              /\ files' = r.st.files
              /\ dirs' = r.st.dirs
              /\ history' = Append(history,
                    [op |-> "fault", key |-> key, use_cache |-> use_cache,
                     existed |-> Exists(Store, key),
                     invoked |-> IF cache_hit(st1, key, use_cache) THEN 0 ELSE 1,
                     ret |-> r.ret, exc |-> r.exc,
                     before |-> Store, after |-> r.st])
    /\ UNCHANGED <<prod, linkVars, routeVars, pipeVars>>

Without(f, k) == [x \in DOMAIN f \ {k} |-> f[x]]

CacheDelete ==
    /\ Len(history) < MaxCalls
    /\ \E key \in DOMAIN files :
          /\ files' = Without(files, key)
          /\ history' = Append(history, [op |-> "delete", key |-> key])
    /\ UNCHANGED <<dirs, prod, linkVars, routeVars, pipeVars>>

CacheNext == CacheCall \/ CacheFault \/ CacheDelete

SpecCache == CacheInit /\ [][CacheNext]_vars

Calls == {i \in 1..Len(history) : history[i].op = "call"}

DeletedBetween(key, i, j) ==
    \E d \in (i + 1)..(j - 1) : history[d].op = "delete" /\ history[d].key = key

\* C3: for a fixed key and producer, once a call with use_cache true has
\* stored a value, every later call with use_cache true on that key, with no
\* deletion of the key in between, returns the value the storing call
\* returned: a structured value field for field, a text verbatim.
C3_RepeatedRetrievalEqual ==
    \A i \in Calls : \A j \in Calls :
        ( /\ i < j
          /\ history[i].key = history[j].key
          /\ history[i].use_cache /\ history[j].use_cache
          /\ history[i].invoked = 1 /\ history[i].exc = "none"
          /\ ~DeletedBetween(history[i].key, i, j) )
        => /\ history[j].exc = "none"
           /\ history[j].ret = history[i].ret

\* C4: a call with use_cache false invokes the producer once and leaves the
\* files and the directories as they were, whether or not the key has an entry;
\* what it returns is the producer's value, not the entry's.
C4_BypassLeavesStore ==
    \A i \in Calls :
        ~history[i].use_cache =>
            /\ history[i].invoked = 1
            /\ history[i].after.files = history[i].before.files
            /\ history[i].after.dirs = history[i].before.dirs
            /\ history[i].exc = prod[history[i].key].exc
            /\ history[i].exc = "none" => history[i].ret = prod[history[i].key].ret

C4_BypassOverEntry ==
    \E i \in Calls :
        /\ ~history[i].use_cache /\ history[i].existed /\ history[i].exc = "none"
        /\ history[i].key = TextKey
        /\ ReadText(history[i].before.files[TextKey]) # history[i].ret

\* C5: with use_cache true, a call that finds an entry at the key does not
\* invoke the producer and leaves the entry as it is; a call that finds none
\* invokes the producer once and, when the producer returns, the entry then
\* at the key holds the returned value (a text as it is, a structured value
\* as the document json.loads reads back to it) and the call returns it.
C5_HitOrStore ==
    \A i \in Calls :
        LET c == history[i]
        IN  c.use_cache =>
              /\ c.existed =>
                    /\ c.invoked = 0
                    /\ c.after.files = c.before.files
              /\ ~c.existed =>
                    /\ c.invoked = 1
                    /\ c.exc = prod[c.key].exc
                    /\ c.exc = "none" =>
                          /\ c.ret = prod[c.key].ret
                          /\ c.key \in DOMAIN c.after.files
                          /\ \A k \in DOMAIN c.before.files :
                                /\ k \in DOMAIN c.after.files
                                /\ c.after.files[k] = c.before.files[k]
                          /\ IF c.key.ext = ".json"
                             THEN json_loads(c.after.files[c.key]) = c.ret
                             ELSE c.after.files[c.key] = c.ret

C5_HitAndStoreSeen ==
    /\ \E i \in Calls :
          history[i].use_cache /\ history[i].existed /\ history[i].invoked = 0
    /\ \E i \in Calls :
          /\ history[i].use_cache /\ ~history[i].existed /\ history[i].exc = "none"
          /\ history[i].key = JsonKey /\ history[i].ret # EmptyDict

\* the calls of either kind, and those in which the producer raised
Attempts == {i \in 1..Len(history) : history[i].op \in {"call", "fault"}}
Failed == {i \in Attempts : history[i].invoked = 1 /\ history[i].exc # "none"}

StoredBetween(key, i, j) ==
    \E k \in (i + 1)..(j - 1) :
        /\ k \in Attempts /\ history[k].key = key /\ history[k].use_cache
        /\ history[k].invoked = 1 /\ history[k].exc = "none"

\* C17: a call in which the producer raises leaves every file as it was; if
\* the key had no entry then, a later call on the key with use_cache true,
\* with no storing call on the key in between, invokes the producer.
C17_FailureStoresNothing ==
    \A i \in Failed :
        /\ history[i].after.files = history[i].before.files
        /\ \A j \in Attempts :
              ( /\ i < j
                /\ history[j].key = history[i].key
                /\ history[j].use_cache
                /\ ~history[i].existed
                /\ ~StoredBetween(history[i].key, i, j) )
              => history[j].invoked = 1

\* a failed call with use_cache true on a key without an entry, and a later
\* call on the key that invoked the producer and returned its value
C17_RetriedAfterFailure ==
    \E i \in Failed : \E j \in Attempts :
        /\ i < j
        /\ history[j].key = history[i].key
        /\ history[i].use_cache /\ history[j].use_cache
        /\ ~history[i].existed
        /\ history[j].invoked = 1 /\ history[j].exc = "none"

(***************************************************************************)
(* The site.  Markup is written token by token.                            *)
(***************************************************************************)
Anchor(link, text) ==
    << StartTag("a", << <<"href", link>> >>), Data(text), EndTag("a") >>

Abbr(class, title) ==
    << StartTag("abbr", << <<"class", class>>, <<"title", title>> >>), EndTag("abbr") >>

\* <dt id=..><a href=..>label</a> title <abbr ..>..</dt><dd class=description>..</dd>
Entry(id, link, title, abbrs, description) ==
    << StartTag("dt", << <<"id", id>> >>) >>
    \o Anchor(link, <<"#">>) \o << Data(title) >> \o abbrs
    \o << EndTag("dt"), StartTag("dd", << <<"class", "description">> >>),
          Data(description), EndTag("dd") >>

RouteList(entries) ==
    << StartTag("dl", << <<"class", "route">> >>) >> \o entries \o << EndTag("dl") >>

EventLink(id) == Path(TRUE, <<"ru", "events", id>>, TRUE)
EventUrl(id)  == urljoin(ArchiveUrl, EventLink(id))
RoutesUrl(id) == urljoin(EventUrl(id), Path(FALSE, <<"routes", "all">>, TRUE))

Run1 == <<"R", "u", "n", " ", "1">>
Run2 == <<" ", "R", "u", "n", "\r", "\n", "2">>
RunV == <<"R", "u", "n", " ", "V">>
Marshruty == <<"M", "a", "r", "s", "h", "r", "u", "t", "y">>

\* newest first: vdnh, then e1; a navigation link and a one-word link between
ArchiveA ==
    Anchor(EventLink("vdnh"), RunV)
    \o Anchor(Path(TRUE, <<"ru", "about">>, TRUE), <<"A", "b", " ", "u", "s">>)
    \o Anchor(EventLink("e1"), Run1)
    \o Anchor(Path(TRUE, <<"ru", "events">>, TRUE), <<"A", "l", "l">>)

\* newest first: e2, then e1
ArchiveB == Anchor(EventLink("e2"), Run2) \o Anchor(EventLink("e1"), Run1)

MainWithRoutes ==
    Anchor(Path(FALSE, <<"info">>, TRUE), <<"I", "n", "f", "o">>)
    \o Anchor(Path(FALSE, <<"routes">>, TRUE), Marshruty)
MainNoRoutes  == Anchor(Path(FALSE, <<"info">>, TRUE), <<"I", "n", "f", "o">>)
MainWrongLink == Anchor(Path(FALSE, <<"route">>, TRUE), Marshruty)

Cp(n) == Path(FALSE, <<n>>, TRUE)

GoodEntry == Entry("r1", Cp("r1"), <<"K", "P", "1">>,
                   Abbr("latitude", "55.7") \o Abbr("longitude", "37.6"), <<"d", "1">>)
MoreEntry == Entry("r2", Cp("r2"), <<"K", "P", "2">>,
                   Abbr("latitude", "55.70") \o Abbr("longitude", "37.6"), <<>>)
NoteEntry == Entry("n1", Cp("n1"), <<"N", "B">>, Abbr("note", "x"), <<"d", "n">>)
LatOnlyEntry == Entry("r3", Cp("r3"), <<"K", "P", "3">>, Abbr("latitude", "55.7"), <<>>)
TextEntry == Entry("r5", Cp("r5"), <<"K", "P", "5">>,
                   Abbr("latitude", "north") \o Abbr("longitude", "37.6"), <<>>)

Page(text) == [status |-> "200", text |-> text]
NotFound   == [status |-> "404", text |-> <<>>]

\* the pages of one event: its main page and its page of all routes
Pages(id, main, routes) == (EventUrl(id) :> main) @@ (RoutesUrl(id) :> routes)

Good(id)     == Pages(id, Page(MainWithRoutes), Page(RouteList(GoodEntry \o NoteEntry)))
Two(id)      == Pages(id, Page(MainWithRoutes), Page(RouteList(NoteEntry \o MoreEntry \o GoodEntry)))
NoRoutes(id) == Pages(id, Page(MainNoRoutes), NotFound)
LatOnly(id)  == Pages(id, Page(MainWithRoutes), Page(RouteList(GoodEntry \o LatOnlyEntry)))
BadText(id)  == Pages(id, Page(MainWithRoutes), Page(RouteList(TextEntry)))
Broken(id)   == Pages(id, Page(MainWrongLink), NotFound)
Down(id)     == Pages(id, NotFound, NotFound)
RoutesDown(id) == Pages(id, Page(MainWithRoutes), NotFound)

Worlds ==
    { (ArchiveUrl :> Page(ArchiveA)) @@ Good("e1") @@ NoRoutes("vdnh"),
      (ArchiveUrl :> Page(ArchiveA)) @@ LatOnly("e1") @@ Good("vdnh"),
      (ArchiveUrl :> Page(ArchiveA)) @@ Good("e1") @@ Down("vdnh"),
      (ArchiveUrl :> Page(ArchiveB)) @@ NoRoutes("e1") @@ Two("e2"),
      (ArchiveUrl :> Page(ArchiveB)) @@ Two("e1") @@ Good("e2"),
      (ArchiveUrl :> Page(ArchiveB)) @@ BadText("e1") @@ Good("e2"),
      (ArchiveUrl :> Page(ArchiveB)) @@ Broken("e1") @@ Good("e2"),
      (ArchiveUrl :> Page(ArchiveA)) @@ NoRoutes("e1") @@ NoRoutes("vdnh"),
      (ArchiveUrl :> Page(ArchiveB)) @@ Good("e1") @@ RoutesDown("e2") }

(***************************************************************************)
(* main(): one command at a time, --list or --update, with the two cache   *)
(* flags; between commands the operator may delete a file.                 *)
(***************************************************************************)
MaxCommands == 3

Args == [disable_html_cache : BOOLEAN, use_cache : BOOLEAN]

NoArgs == [disable_html_cache |-> FALSE, use_cache |-> FALSE]

Idle ==
    [pc |-> "idle", exc |-> "none", args |-> NoArgs, events |-> <<>>, idx |-> 1,
     features |-> <<>>, parsed |-> <<>>, fetched |-> <<>>, errors |-> <<>>,
     step |-> None]

Init ==
    /\ net \in Worlds
    /\ files = <<>> /\ dirs = {}
    /\ run = Idle /\ built = None /\ output = None /\ log = <<>>
    /\ linkParser = LinkParser_init /\ fed = <<>>
    /\ routeParser = RouteParser_init /\ routeFed = Unfed
    /\ prod = <<>> /\ history = <<>>

CanStart == run.pc = "idle" /\ Len(log) < MaxCommands

\* list_events(args); it reads no flag but disable_html_cache
List ==
    /\ CanStart
    /\ \E args \in {a \in Args : ~a.use_cache} :
          \E r \in {get_events(Store, args)} :
              /\ files' = r.st.files
              /\ dirs' = r.st.dirs
              /\ built' = [links |-> r.links, exc |-> r.exc, ret |-> r.ret]
              /\ run' = [Idle EXCEPT !.args = args, !.exc = r.exc,
                                     !.fetched = r.st.fetched]
              /\ log' = Append(log,
                    [op |-> "list", args |-> args, exc |-> r.exc,
                     printed |-> IF r.exc = "none" THEN r.ret.list ELSE <<>>,
                     existed |-> DOMAIN files, fetched |-> r.st.fetched])
    /\ UNCHANGED <<net, output, linkVars, routeVars, cacheVars>>

\* update_events(args) up to the loop: features = []; get_events(args)
UpdateStart ==
    /\ CanStart
    /\ \E args \in Args :
          \E r \in {get_events(Store, args)} :
              /\ files' = r.st.files
              /\ dirs' = r.st.dirs
              /\ built' = [links |-> r.links, exc |-> r.exc, ret |-> r.ret]
              /\ IF r.exc = "none"
                 THEN /\ run' = [Idle EXCEPT !.pc = "loop", !.args = args,
                                            !.events = r.ret.list,
                                            !.fetched = r.st.fetched]
                      /\ log' = log
                 ELSE /\ run' = [Idle EXCEPT !.args = args, !.exc = r.exc,
                                            !.fetched = r.st.fetched]
                      /\ log' = Append(log,
                            [op |-> "update", args |-> args, exc |-> r.exc,
                             fetched |-> r.st.fetched])
    /\ UNCHANGED <<net, output, linkVars, routeVars, cacheVars>>

\* one pass of the loop over the events
UpdateStep ==
    /\ run.pc = "loop" /\ run.idx <= Len(run.events)
    /\ \E event \in {run.events[run.idx]} :
       \E r \in {cached_parse_event(
                    [files |-> files, dirs |-> dirs,
                     fetched |-> run.fetched, errors |-> run.errors],
                    run.args, event)} :
       \E feats \in {IF r.exc = "none"
                     THEN add_features(event, Items(r.ret), run.features)
                     ELSE [ret |-> run.features, exc |-> "none"]} :
       LET exc == IF r.exc # "none" THEN r.exc ELSE feats.exc
           step == [idx |-> run.idx, event |-> event, links |-> r.links,
                    raw |-> r.raw, ret |-> r.ret, exc |-> r.exc,
                    logged |-> Len(r.st.errors) > Len(run.errors)]
       IN  /\ files' = r.st.files
           /\ dirs' = r.st.dirs
           /\ IF exc = "none"
              THEN /\ run' = [run EXCEPT !.idx = @ + 1, !.features = feats.ret,
                                         !.parsed = Append(@, r.ret),
                                         !.fetched = r.st.fetched,
                                         !.errors = r.st.errors, !.step = step]
                   /\ log' = log
              ELSE /\ run' = [run EXCEPT !.pc = "idle", !.exc = exc,
                                         !.fetched = r.st.fetched,
                                         !.errors = r.st.errors, !.step = step]
                   /\ log' = Append(log,
                         [op |-> "update", args |-> run.args, exc |-> exc,
                          fetched |-> r.st.fetched])
    /\ UNCHANGED <<net, built, output, linkVars, routeVars, cacheVars>>

\* after the loop: runcity_points.js is written
UpdateFinish ==
    /\ run.pc = "loop" /\ run.idx > Len(run.events)
    /\ output' = js_data(run.features)
    /\ run' = [run EXCEPT !.pc = "idle"]
    /\ log' = Append(log,
          [op |-> "update", args |-> run.args, exc |-> "none",
           output |-> js_data(run.features), events |-> run.events,
           parsed |-> run.parsed, features |-> run.features,
           fetched |-> run.fetched])
    /\ UNCHANGED <<net, built, storeVars, linkVars, routeVars, cacheVars>>

\* the operator deletes a file of the cache directory
Delete ==
    /\ CanStart
    /\ \E fname \in DOMAIN files :
          /\ files' = Without(files, fname)
          /\ log' = Append(log, [op |-> "delete", fname |-> fname])
    /\ UNCHANGED <<net, run, built, output, dirs, linkVars, routeVars, cacheVars>>

Next == List \/ UpdateStart \/ UpdateStep \/ UpdateFinish \/ Delete

Spec == Init /\ [][Next]_vars

Lists   == {i \in 1..Len(log) : log[i].op = "list" /\ log[i].exc = "none"}
Updates == {i \in 1..Len(log) : log[i].op = "update" /\ log[i].exc = "none"}

HasBoth(item) == "latitude" \in DOMAIN item /\ "longitude" \in DOMAIN item

\* the records of a sequence that carry both coordinates, in order
RECURSIVE WithBoth(_)
WithBoth(items) ==
    IF items = <<>> THEN <<>>
    ELSE IF HasBoth(Head(items)) THEN <<Head(items)>> \o WithBoth(Tail(items))
    ELSE WithBoth(Tail(items))

Ids(items) == [i \in 1..Len(items) |-> items[i]["id"]]

\* C2: of the raw records the Route Extractor returned for an event, those
\* with a coordinate absent (latitude, longitude or both) are left out of the
\* kept records and raise nothing: when the records that carry both
\* coordinates are well formed, the resolver returns exactly those.
C2_AbsentCoordinateDiscarded ==
    ( /\ run.step # None
      /\ run.step.raw # None
      /\ \A i \in 1..Len(run.step.raw.some) :
            LET item == run.step.raw.some[i]
            IN  HasBoth(item) =>
                  /\ IsNumeral(item["latitude"]) /\ IsNumeral(item["longitude"])
                  /\ "link" \in DOMAIN item )
    => /\ run.step.exc = "none"
       /\ Ids(Items(run.step.ret)) = Ids(WithBoth(run.step.raw.some))

\* C6: in every listing each event's is_parsed says whether the event's
\* parsed result existed when the listing was made.
C6_IsParsedIsCurrent ==
    \A i \in Lists : \A k \in 1..Len(log[i].printed) :
        log[i].printed[k]["is_parsed"]
            = (log[i].printed[k]["parsed_path"] \in log[i].existed)

\* C7: when the Link Extractor finds no routes label on an event's main page,
\* the resolver returns the empty result and raises nothing, an error is
\* logged exactly when the id is not in NO_ROUTE_GAMES, and the loop goes on
\* to the next event of the catalog.
C7_NoRoutesSection ==
    ( /\ run.step # None
      /\ run.step.links # None
      /\ ~HasRoutesLink(run.step.links.some) )
    => /\ run.step.exc = "none"
       /\ run.step.ret = EmptyDict
       /\ run.step.logged <=> run.step.event["id"] \notin NO_ROUTE_GAMES
       /\ run.exc = "none"
       /\ run.idx = run.step.idx + 1
       /\ Len(run.parsed) = run.step.idx

\* an event outside the list was logged and the run went on to one of the list
C7_BothKindsSeen ==
    /\ run.step # None /\ run.step.links # None
    /\ ~HasRoutesLink(run.step.links.some)
    /\ run.step.event["id"] \in NO_ROUTE_GAMES
    /\ ~run.step.logged
    /\ run.errors = <<"e1">>
    /\ run.parsed = <<EmptyDict, EmptyDict>>

\* the (event, record) pairs of a run in processing order
RECURSIVE Processed(_, _, _)
Processed(events, parsed, k) ==
    IF k > Len(events) THEN <<>>
    ELSE [j \in 1..Len(Items(parsed[k])) |-> <<events[k], Items(parsed[k])[j]>>]
         \o Processed(events, parsed, k + 1)

\* C8: when an update run ends, the features have the ids 0, 1, ..., N-1 in
\* order, N the number of kept records of all events, and the n-th feature is
\* made of the n-th kept record in catalog order of the events and, within an
\* event, in the order of its kept records.
C8_SequentialIds ==
    \A i \in Updates :
        LET done == Processed(log[i].events, log[i].parsed, 1)
            features == log[i].features
        IN  /\ Len(features) = Len(done)
            /\ \A n \in 1..Len(features) :
                  /\ features[n].id = n - 1
                  /\ features[n].geometry.coordinates
                        = <<done[n][2]["latitude"], done[n][2]["longitude"]>>
                  /\ features[n].properties.balloonContentHeader
                        = done[n][1]["title"] \o <<":", " ">> \o done[n][2]["title"]

C8_ManyAndNone ==
    \E i \in Updates :
        /\ Len(log[i].features) >= 2
        /\ \E k \in 1..Len(log[i].events) : Items(log[i].parsed[k]) = <<>>
        /\ output = log[i].output

BothCaches(args) == ~args.disable_html_cache /\ args.use_cache

\* C9: two update runs in a row, both with raw-page caching and per-event
\* result caching, write the same runcity_points.js, and the second run
\* fetches nothing.
C9_Idempotent ==
    \A i \in Updates : \A j \in Updates :
        (j = i + 1 /\ BothCaches(log[i].args) /\ BothCaches(log[j].args))
        => /\ log[j].output = log[i].output
           /\ log[j].fetched = <<>>

C9_TwoRuns ==
    \E i \in Updates : \E j \in Updates :
        /\ j = i + 1 /\ BothCaches(log[i].args) /\ BothCaches(log[j].args)
        /\ log[i].fetched # <<>>
        /\ Len(log[j].features) >= 2
        /\ \E n \in 1..Len(log[j].features) :
              log[j].features[n].properties.balloonContentBody # <<>>

\* the positions of the Link Extractor's pairs that name an event
EventPairs(links) ==
    {i \in 1..Len(links) :
        WordCount(links[i][2], FALSE) >= 2 /\ ContainsEvents(links[i][1])}

\* C10: the catalog holds one event per Link Extractor pair whose text has
\* two or more words and whose link contains '/events/', and no other
\* event; the events stand in the reverse of the order of their pairs.
C10_CatalogReversed ==
    (built # None /\ built.links # None /\ built.exc = "none") =>
        LET links == built.links.some
            events == built.ret.list
        IN  \E f \in [1..Len(events) -> EventPairs(links)] :
              /\ \A i \in EventPairs(links) : \E k \in 1..Len(events) : f[k] = i
              /\ \A k \in 1..Len(events) : \A m \in 1..Len(events) :
                    k < m => f[k] > f[m]
              /\ \A k \in 1..Len(events) :
                    /\ events[k]["id"] = Basename(links[f[k]][1])
                    /\ events[k]["title"] = links[f[k]][2]
                    /\ events[k]["url"] = urljoin(ArchiveUrl, links[f[k]][1])

C10_Reordered ==
    /\ built # None /\ built.links # None /\ built.exc = "none"
    /\ Len(built.ret.list) = 2
    /\ Len(built.links.some) = 4
    /\ built.ret.list[1]["id"] = "e1"

\* the file get_html keeps the page of a URL in
PageFile(url) ==
    IF url = ArchiveUrl THEN ArchiveHtml
    ELSE LET id == CHOOSE e \in {"e1", "e2", "vdnh"} : url \in {EventUrl(e), RoutesUrl(e)}
         IN  IF url = EventUrl(id) THEN MainFile(id) ELSE RoutesFile(id)

Runs == {i \in 1..Len(log) : log[i].op \in {"list", "update"}}

\* the pages a sequence of fetches got
Succeeded(fetched) == {fetched[k] : k \in {n \in 1..Len(fetched) : Responds(fetched[n])}}

\* the runs with raw-page caching that a failing fetch ended
Aborted ==
    {i \in Runs : log[i].exc = "HTTPError" /\ ~log[i].args.disable_html_cache}

\* C11: between the steps of a command with raw-page caching, and until the
\* operator deletes a file after it, every page the command fetched is kept in
\* its file as it was received; the command that follows a run which a failing
\* fetch ended, if it too has raw-page caching, fetches none of the pages that
\* run got.
C11_ResumeAfterAbort ==
    /\ ( /\ ~run.args.disable_html_cache
         /\ run.pc = "loop" \/ (log # <<>> /\ log[Len(log)].op \in {"list", "update"}) )
       => \A url \in Succeeded(run.fetched) :
             /\ PageFile(url) \in DOMAIN files
             /\ files[PageFile(url)] = WriteText(net[url].text)
    /\ \A i \in Aborted : \A j \in Runs :
          (j = i + 1 /\ ~log[j].args.disable_html_cache)
          => \A k \in 1..Len(log[j].fetched) :
                log[j].fetched[k] \notin Succeeded(log[i].fetched)

\* an update got the archive and three more pages before a fetch failed, and
\* the update after it fetched nothing but the failing page
C11_ResumedRun ==
    \E i \in Aborted : \E j \in Runs :
        /\ j = i + 1 /\ ~log[j].args.disable_html_cache
        /\ log[i].op = "update" /\ log[j].op = "update"
        /\ Cardinality(Succeeded(log[i].fetched)) >= 4
        /\ Len(log[j].fetched) = 1
        /\ ~Responds(log[j].fetched[1])

====
